---- MODULE Spec2Model ----
(***************************************************************************)
(* gocache: the LRU store (package lru), the request coalescer (package    *)
(* singleflight) and the lookup state machine of Group (package gocache).  *)
(*                                                                         *)
(* Byte strings (keys, values) are sequences of bytes; a ByteView is the   *)
(* sequence it wraps, so Len is ByteView.Len and len(key).                 *)
(***************************************************************************)
EXTENDS Integers, Sequences, FiniteSets, TLC

\* ------------------------------------------------------------------ bounds
\* longest value the loader, a peer or a direct Add supplies
MaxValLen == 2
\* largest capacity a cache is constructed with (0 = unbounded)
MaxCap == 4
\* number of direct calls made on an lru.Cache in SpecLRU
MaxOps == 4

\* number of Group.Get calls made on a group without a Picker (Spec)
MaxCalls == 3
\* number of Group.Get calls made on a group that may have a Picker (SpecPeer)
MaxPeerCalls == 2
\* virtual nodes per peer on a ring (the server's ring has defaultReplicas = 50)
MaxReplicas == 2
\* number of RegisterSvr calls made on the group (SpecSvr)
MaxRegSvr == 5
\* number of NewGroup, GetGroup and DestoryGroup calls made on the directory
MaxDirOps == 3
\* Register calls on a Consistentency under direct calls
MaxRegs == 2
\* the largest hash value of the hash functions given to New
MaxHash == 4

Bytes(n) == [i \in 1..n |-> 7]
Vals == {Bytes(n) : n \in 0..MaxValLen}
LruKeys == {<<1>>, <<2>>, <<3>>}
Caps == 0..MaxCap
Threads == {"t1", "t2"}
GroupKeys == {<<1>>, <<2>>}
GroupVals == {Bytes(1), Bytes(MaxValLen)}
EmptyKey == <<>>
NoErr == "nil"
LoadErr == "load failed"
FetchErr == "fetch failed"
KeyErr == "key is required"
NoPacket == 0
NoThread == "none"
\* what an operation that panicked left as its result
Panicked == "panic"

VARIABLES
    c,        \* the lru.Cache: capacity, length, doublyLinkedList, hashmap, callback
    called,   \* the callback invocations made by the operation in progress (or the last one)
    lruPc,    \* "idle", or "AddLoop" while Cache.Add is in its eviction loop
    lruArg,   \* the arguments of the Add in progress
    lruRet,   \* what the last Cache.Get returned
    nops,     \* direct calls made so far (SpecLRU)
    uses,     \* history: the stored keys, most recently used (Get hit or Add) first
    cmu,      \* the goroutine whose cache.add holds the cache's lock, or NoThread
    fmu,      \* the holder of the Flight's table lock f.mu (NoThread: unlocked)
    server,   \* g.server: "nil" or "svr" (a Picker is attached)
    svr,      \* the *server attached as g.server: addr, consHash, clients
    reg,      \* the RegisterSvr calls made: how many, the last one's argument and outcome
    flight,   \* f.flight: key -> pending packet
    packets,  \* the packets allocated so far; a packet's index is its address
    pc,       \* where each goroutine is in Group.Get
    key,      \* the key of the goroutine's Get
    p,        \* the packet the goroutine holds in Fly (NoPacket: none)
    res,      \* the result of the goroutine's fn so far
    ret,      \* what the goroutine's last Get returned
    fetched,  \* the outcome of the peer step of the goroutine's fn
    role,     \* history: how the goroutine's Get was served
    ncalls,   \* the Get calls each goroutine has made so far
    batch,    \* history: the keys none of whose missing Gets has returned yet
    inBatch,  \* history: the goroutine's Get missed the cache before any such Get returned
    avoid,    \* history: the packets marked stale when the goroutine's Get started
    cons,     \* a Consistentency under direct calls: replicas, ring, hashMap
    hash,     \* its HashFunc: the hash of each virtual node name and key
    owner,    \* what its last Get returned, and for which key (since the last Register)
    nregs,    \* Register calls made on it so far
    vnodes,   \* history: the virtual nodes registered so far, hash and peer, in order
    prior,    \* history: the owner of each key just before the last Register
    joined,   \* history: the peers the last Register was called with
    groups,   \* the directory: name -> registered Group (its index in objs)
    objs,     \* the Groups constructed so far: name, server ("nil" or "svr")
    mu,       \* the directory's RWMutex: the writer (or NoThread) and the readers
    dpc,      \* where each goroutine is in NewGroup, GetGroup or DestoryGroup
    darg,     \* the operation the goroutine is in, its name and the group it holds
    dret,     \* what the goroutine's last directory operation returned
    ndir      \* directory operations called so far

lruVars == <<c, called, lruPc, lruArg, lruRet, nops, uses>>
groupVars == <<cmu, fmu, server, svr, reg,
               flight, packets, pc, key, p, res, ret, fetched, role, ncalls,
               batch, inBatch, avoid>>
ringVars == <<cons, hash, owner, nregs, vnodes, prior, joined>>
dirVars == <<groups, objs, mu, dpc, darg, dret, ndir>>
otherVars == <<ringVars, dirVars>>
vars == <<lruVars, groupVars, otherVars>>

\* ------------------------------------------------------- container/list
\* A list element is [id, key, value]; id stands for the element's address.
Front(l) == l[1]
Back(l) == l[Len(l)]
ElemIds(l) == {l[i].id : i \in 1..Len(l)}
ListKeys(l) == [i \in 1..Len(l) |-> l[i].key]
NewElemId(l) == CHOOSE n \in 1..(Len(l) + 1) :
                    n \notin ElemIds(l) /\ \A m \in 1..(n - 1) : m \in ElemIds(l)
RECURSIVE WithoutId(_, _)
WithoutId(l, id) ==
    IF l = <<>> THEN <<>>
    ELSE IF Front(l).id = id THEN Tail(l)
    ELSE <<Front(l)>> \o WithoutId(Tail(l), id)
ElemOf(l, id) == l[CHOOSE i \in 1..Len(l) : l[i].id = id]
MoveToFront(l, id) == <<ElemOf(l, id)>> \o WithoutId(l, id)
PushFront(l, e) == <<e>> \o l
RECURSIVE WithoutKey(_, _)
WithoutKey(s, k) ==
    IF s = <<>> THEN <<>>
    ELSE IF Front(s) = k THEN WithoutKey(Tail(s), k)
    ELSE <<Front(s)>> \o WithoutKey(Tail(s), k)

\* ---------------------------------------------------------------- lru.Cache
\* hashmap: a Go map from key to list element, as a function on the keys it holds
EmptyMap == [k \in {} |-> 0]
InMap(m, k) == k \in DOMAIN m
MapDelete(m, k) == [x \in DOMAIN m \ {k} |-> m[x]]
MapPut(m, k, id) == [x \in DOMAIN m \cup {k} |-> IF x = k THEN id ELSE m[x]]

New(maxBytes, callback) ==
    [capacity |-> maxBytes, length |-> 0, doublyLinkedList |-> <<>>,
     hashmap |-> EmptyMap, callback |-> callback]

\* a Get that returns the value and leaves the element where it is
GetKeepPlace(cache, k) ==
    IF InMap(cache.hashmap, k)
    THEN [cache |-> cache,
          value |-> ElemOf(cache.doublyLinkedList, cache.hashmap[k]).value, ok |-> TRUE]
    ELSE [cache |-> cache, value |-> <<>>, ok |-> FALSE]

\* Cache.Get: a hit moves the element to the front and returns its value.
Get(cache, k) ==
    IF InMap(cache.hashmap, k)
    THEN LET elem == cache.hashmap[k]
         IN [cache |-> [cache EXCEPT !.doublyLinkedList = MoveToFront(@, elem)],
             value |-> ElemOf(cache.doublyLinkedList, elem).value, ok |-> TRUE]
    ELSE [cache |-> cache, value |-> <<>>, ok |-> FALSE]

\* a Remove that leaves the key of the dropped element in the index
RemoveKeepIndex(cache) ==
    IF cache.doublyLinkedList = <<>> THEN cache
    ELSE LET tailElem == Back(cache.doublyLinkedList)
         IN [cache EXCEPT
                !.doublyLinkedList = WithoutId(@, tailElem.id),
                !.length = @ - (Len(tailElem.key) + Len(tailElem.value))]

\* Cache.Remove: drops the back element, if any.
Remove(cache) ==
    IF cache.doublyLinkedList = <<>> THEN cache
    ELSE LET tailElem == Back(cache.doublyLinkedList)
         IN [cache EXCEPT
                !.hashmap = MapDelete(@, tailElem.key),
                !.doublyLinkedList = WithoutId(@, tailElem.id),
                !.length = @ - (Len(tailElem.key) + Len(tailElem.value))]

\* a Remove that passes the callback the key alone
RemoveCallsNoValue(cache) ==
    IF cache.doublyLinkedList # <<>> /\ cache.callback
    THEN <<<<Back(cache.doublyLinkedList).key, <<>>>>>>
    ELSE <<>>

\* the callback invocations Cache.Remove makes
RemoveCalls(cache) ==
    IF cache.doublyLinkedList # <<>> /\ cache.callback
    THEN LET tailElem == Back(cache.doublyLinkedList)
         IN <<<<tailElem.key, tailElem.value>>>>
    ELSE <<>>

KvSize(k, value) == Len(k) + Len(value)

\* the condition of Cache.Add's eviction loop
AddLoopCond(cache, k, value) ==
    cache.capacity # 0 /\ KvSize(k, value) + cache.length > cache.capacity

\* Cache.Add after its eviction loop: update in place or insert at the front.
AddStore(cache, k, value) ==
    IF InMap(cache.hashmap, k)
    THEN LET elem == cache.hashmap[k]
             oldEntry == ElemOf(cache.doublyLinkedList, elem)
             moved == MoveToFront(cache.doublyLinkedList, elem)
         IN [cache EXCEPT
                !.doublyLinkedList =
                    [moved EXCEPT ![1] = [id |-> elem, key |-> oldEntry.key, value |-> value]],
                !.length = @ + Len(oldEntry.value) - Len(value)]
    ELSE LET elem == NewElemId(cache.doublyLinkedList)
         IN [cache EXCEPT
                !.doublyLinkedList = PushFront(@, [id |-> elem, key |-> k, value |-> value]),
                !.hashmap = MapPut(@, k, elem),
                !.length = @ + KvSize(k, value)]

\* history: key becomes the most recently used of the stored keys
Touch(u, k) == <<k>> \o WithoutKey(u, k)

\* ------------------------------------------- consistenthash.Consistentency
\* strconv.Itoa(i) for one digit: the byte of the digit
Itoa(i) == <<48 + i>>
\* the name of a peer's i-th virtual node: strconv.Itoa(i) + peerName
VNode(i, peerName) == Itoa(i) \o peerName

\* New(replicas, fn): an empty ring
NewConsistentency(replicas) ==
    [replicas |-> replicas, ring |-> <<>>, hashMap |-> EmptyMap]

\* sort.Ints, by insertion
RECURSIVE InsertInt(_, _)
InsertInt(sorted, n) ==
    IF sorted = <<>> THEN <<n>>
    ELSE IF n <= Front(sorted) THEN <<n>> \o sorted
    ELSE <<Front(sorted)>> \o InsertInt(Tail(sorted), n)
RECURSIVE SortInts(_)
SortInts(ints) ==
    IF ints = <<>> THEN <<>> ELSE InsertInt(SortInts(Tail(ints)), Front(ints))

\* the inner loop of Register from virtual node i on: append the hash to the ring
\* and point it at the peer
RECURSIVE RegisterReplicas(_, _, _, _)
RegisterReplicas(cs, h, peerName, i) ==
    IF i >= cs.replicas THEN cs
    ELSE LET hashValue == h[VNode(i, peerName)]
         IN RegisterReplicas([cs EXCEPT !.ring = Append(@, hashValue),
                                        !.hashMap = MapPut(@, hashValue, peerName)],
                             h, peerName, i + 1)

\* the outer loop of Register over the peers, left to right
RECURSIVE RegisterPeers(_, _, _)
RegisterPeers(cs, h, peersName) ==
    IF peersName = <<>> THEN cs
    ELSE RegisterPeers(RegisterReplicas(cs, h, Front(peersName), 0), h, Tail(peersName))

\* Consistentency.Register: add the virtual nodes of the peers, then sort the ring
Register(cs, h, peersName) ==
    [RegisterPeers(cs, h, peersName) EXCEPT !.ring = SortInts(@)]

\* sort.Search(n, f) with f(i) = ring[i] >= hashValue, on 0-based indices lo..hi:
\* binary search for the smallest index whose entry is >= hashValue, hi if none
RECURSIVE Search(_, _, _, _)
Search(ring, hashValue, lo, hi) ==
    IF lo >= hi THEN lo
    ELSE LET mid == (lo + hi) \div 2
         IN IF ~(ring[mid + 1] >= hashValue)
            THEN Search(ring, hashValue, mid + 1, hi)
            ELSE Search(ring, hashValue, lo, mid)

\* a lookup that does not wrap around: past the last entry it finds no owner
GetPeerNoWrap(cs, h, k) ==
    IF Len(cs.ring) = 0 THEN <<>>
    ELSE LET idx == Search(cs.ring, h[k], 0, Len(cs.ring))
         IN IF idx = Len(cs.ring) THEN <<>> ELSE cs.hashMap[cs.ring[idx + 1]]

\* a lookup by the hash modulo the number of ring entries
GetPeerByModulo(cs, h, k) ==
    IF Len(cs.ring) = 0 THEN <<>>
    ELSE cs.hashMap[cs.ring[(h[k] % Len(cs.ring)) + 1]]

\* Consistentency.Get (server.Pick calls it GetPeer): the owner of the key, "" when
\* the ring is empty
GetPeer(cs, h, k) ==
    IF Len(cs.ring) = 0 THEN <<>>
    ELSE LET idx == Search(cs.ring, h[k], 0, Len(cs.ring))
         IN cs.hashMap[cs.ring[(idx % Len(cs.ring)) + 1]]

\* ------------------------------------------------------------------ server
\* the node's own address and the address of another node
SelfAddr == <<10>>
RemoteAddr == <<11>>
\* the peer lists SetPeers is called with
PeerLists == {<<>>, <<SelfAddr>>, <<RemoteAddr>>, <<SelfAddr, RemoteAddr>>}

\* crc32.ChecksumIEEE, the hash of the server's ring, on the keys of the Gets and
\* the virtual node names of the two addresses: each checksum is given by its rank
\* among the checksums of these strings (they are all different)
Crc32 ==
    (<<1>> :> 10) @@ (<<2>> :> 5) @@
    (VNode(0, SelfAddr) :> 9) @@ (VNode(1, SelfAddr) :> 8) @@
    (VNode(2, SelfAddr) :> 6) @@ (VNode(3, SelfAddr) :> 7) @@
    (VNode(0, RemoteAddr) :> 1) @@ (VNode(1, RemoteAddr) :> 2) @@
    (VNode(2, RemoteAddr) :> 4) @@ (VNode(3, RemoteAddr) :> 3)

\* NewServer(addr): no ring (consHash is nil) and no clients yet
NewServer(addr) ==
    [addr |-> addr, consNil |-> TRUE, consHash |-> NewConsistentency(0), clients |-> {}]

\* SetPeers: a new ring of the peers and one client per peer (named by its address)
SetPeers(s, peersAddr) ==
    [s EXCEPT !.consNil = FALSE,
              !.consHash = Register(NewConsistentency(MaxReplicas), Crc32, peersAddr),
              !.clients = {peersAddr[i] : i \in 1..Len(peersAddr)}]

\* the servers a group is given: a new server, or one whose peers were set
Servers ==
    {NewServer(SelfAddr)} \cup {SetPeers(NewServer(SelfAddr), ps) : ps \in PeerLists}

\* server.Pick on a server with a ring: the fetcher is the client of the owner's
\* address (<<>>: the nil client, when s.clients has none for it)
Pick(s, k) ==
    LET peerAddr == GetPeer(s.consHash, Crc32, k)
    IN IF peerAddr = s.addr
       THEN [fetcher |-> <<>>, ok |-> FALSE]
       ELSE [fetcher |-> IF peerAddr \in s.clients THEN peerAddr ELSE <<>>, ok |-> TRUE]

\* ------------------------------------------------- singleflight.Flight
R(v, e) == [val |-> v, err |-> e]
\* the peer step of fn: not taken ("none"), Pick said no ("self"), Fetch failed ("fail")
\* or Fetch returned bytes ("ok")
Peer(st, bytes) == [st |-> st, bytes |-> bytes]
NoRes == R(<<>>, "none")

\* new(packet) with wg.Add(1): val and err are zero, the wait group counts one.
\* out, nload, batch and stale are history fields.
NewPacket(k, b) ==
    [key |-> k, val |-> <<>>, err |-> NoErr, wg |-> 1,
     out |-> NoRes, nload |-> 0, batch |-> b, stale |-> FALSE]

\* Fly's lookup of a pending packet
HasPending(fl, k) == k \in DOMAIN fl

\* an insertion that is lost
InsertRecordLost(fl, k, id) == fl

\* f.flight[key] = p
InsertRecord(fl, k, id) == MapPut(fl, k, id)

\* a leader that stores the result and never calls p.wg.Done()
StoreResultNoDone(pk, r) == [pk EXCEPT !.val = r.val, !.err = r.err]

\* p.val, p.err = fn(); p.wg.Done()
StoreResult(pk, r) == [pk EXCEPT !.val = r.val, !.err = r.err, !.wg = @ - 1]

\* a Wait that does not wait
WgDoneAtOnce(pk) == TRUE

\* p.wg.Wait() returns
WgDone(pk) == pk.wg = 0

\* delete(f.flight, key)
DeleteRecord(fl, k) == MapDelete(fl, k)

\* Group.load's return from Fly's (view, err)
LoadResult(v, e) == IF e = NoErr THEN R(v, NoErr) ELSE R(<<>>, e)

\* history: when a Get of k returns with k not cached, the loads of k started so far are stale
MarkStale(pk, k, cache) ==
    IF InMap(cache.hashmap, k) THEN pk
    ELSE [i \in DOMAIN pk |->
            IF pk[i].key = k /\ pk[i].nload > 0 THEN [pk[i] EXCEPT !.stale = TRUE] ELSE pk[i]]

\* ---------------------------------------------- direct calls on an lru.Cache
CacheGet(k) ==
    /\ lruPc = "idle" /\ nops < MaxOps
    /\ LET r == Get(c, k)
       IN /\ c' = r.cache
          /\ lruRet' = <<r.value, r.ok>>
          /\ uses' = IF r.ok THEN Touch(uses, k) ELSE uses
    /\ called' = <<>>
    /\ nops' = nops + 1
    /\ UNCHANGED <<otherVars, lruPc, lruArg, groupVars>>

CacheAdd(k, value) ==
    /\ lruPc = "idle" /\ nops < MaxOps
    /\ lruPc' = "AddLoop"
    /\ lruArg' = [key |-> k, value |-> value]
    /\ called' = <<>>
    /\ nops' = nops + 1
    /\ UNCHANGED <<otherVars, c, lruRet, uses, groupVars>>

\* one iteration of Add's eviction loop
AddEvict ==
    /\ lruPc = "AddLoop"
    /\ AddLoopCond(c, lruArg.key, lruArg.value)
    /\ c' = Remove(c)
    /\ called' = called \o RemoveCalls(c)
    /\ uses' = IF uses = <<>> THEN uses ELSE SubSeq(uses, 1, Len(uses) - 1)
    /\ UNCHANGED <<otherVars, lruPc, lruArg, lruRet, nops, groupVars>>

\* the loop is left: store the entry and return (to getLocally, when a Get called)
AddFinish ==
    /\ lruPc = "AddLoop"
    /\ ~AddLoopCond(c, lruArg.key, lruArg.value)
    /\ c' = AddStore(c, lruArg.key, lruArg.value)
    /\ uses' = Touch(uses, lruArg.key)
    /\ lruPc' = "idle"
    /\ cmu' = NoThread
    /\ pc' = IF cmu = NoThread THEN pc ELSE [pc EXCEPT ![cmu] = "Done"]
    /\ UNCHANGED <<otherVars, fmu, called, lruArg, lruRet, nops, server, svr, reg, flight, packets, key, p, res,
                   ret, fetched, role, ncalls, batch, inBatch, avoid>>

CacheRemove ==
    /\ lruPc = "idle" /\ nops < MaxOps
    /\ c' = Remove(c)
    /\ called' = RemoveCalls(c)
    /\ uses' = IF uses = <<>> THEN uses ELSE SubSeq(uses, 1, Len(uses) - 1)
    /\ nops' = nops + 1
    /\ UNCHANGED <<otherVars, lruPc, lruArg, lruRet, groupVars>>

\* ------------------------------------------------------------- Group.Get
\* g.cache wraps the lru.Cache in one exclusion lock around each get and add:
\* the lock is free when no Add is in progress
CacheFree == lruPc = "idle"

\* the calls made by the goroutines of S
RECURSIVE TotalCalls(_, _)
TotalCalls(n, S) ==
    IF S = {} THEN 0
    ELSE LET t == CHOOSE x \in S : TRUE IN n[t] + TotalCalls(n, S \ {t})

\* what every call of g.Get(k) by goroutine t starts with
Begin(t, k, max) ==
    /\ pc[t] = "idle" /\ TotalCalls(ncalls, Threads) < max
    /\ ncalls' = [ncalls EXCEPT ![t] = @ + 1]
    /\ key' = [key EXCEPT ![t] = k]
    /\ p' = [p EXCEPT ![t] = NoPacket]
    /\ res' = [res EXCEPT ![t] = NoRes]
    /\ fetched' = [fetched EXCEPT ![t] = Peer("none", <<>>)]
    /\ avoid' = [avoid EXCEPT ![t] = {i \in DOMAIN packets : packets[i].stale}]

\* a Get that does not reject the empty key and looks it up as any other key
GetEmptyKeyLoads(t, max) ==
    /\ Begin(t, EmptyKey, max)
    /\ CacheFree
    /\ ~Get(c, EmptyKey).ok
    /\ pc' = [pc EXCEPT ![t] = "Fly"]
    /\ ret' = [ret EXCEPT ![t] = NoRes]
    /\ role' = [role EXCEPT ![t] = "none"]
    /\ inBatch' = [inBatch EXCEPT ![t] = FALSE]
    /\ UNCHANGED <<otherVars, fmu, lruVars, cmu, server, svr, reg, flight, packets, batch>>

\* Get with the empty key returns an error
GetEmptyKey(t, max) ==
    /\ Begin(t, EmptyKey, max)
    /\ ret' = [ret EXCEPT ![t] = R(<<>>, KeyErr)]
    /\ role' = [role EXCEPT ![t] = "invalid"]
    /\ inBatch' = [inBatch EXCEPT ![t] = FALSE]
    /\ UNCHANGED <<otherVars, fmu, lruVars, cmu, server, svr, reg, flight, packets, pc, batch>>

\* a Get that goes on to g.load(key) although the key is cached
GetHitAlsoLoads(t, k, max) ==
    /\ Begin(t, k, max)
    /\ CacheFree
    /\ Get(c, k).ok
    /\ pc' = [pc EXCEPT ![t] = "Fly"]
    /\ ret' = [ret EXCEPT ![t] = NoRes]
    /\ role' = [role EXCEPT ![t] = "none"]
    /\ inBatch' = [inBatch EXCEPT ![t] = FALSE]
    /\ UNCHANGED <<otherVars, fmu, lruVars, cmu, server, svr, reg, flight, packets, batch>>

\* g.cache.get(key) finds the key: Get returns the cached value
GetHit(t, k, max) ==
    /\ Begin(t, k, max)
    /\ CacheFree
    /\ Get(c, k).ok
    /\ c' = Get(c, k).cache
    /\ uses' = Touch(uses, k)
    /\ ret' = [ret EXCEPT ![t] = R(Get(c, k).value, NoErr)]
    /\ role' = [role EXCEPT ![t] = "hit"]
    /\ inBatch' = [inBatch EXCEPT ![t] = FALSE]
    /\ UNCHANGED <<otherVars, fmu, called, lruPc, lruArg, lruRet, nops, cmu, server, svr, reg, flight, packets, pc,
                   batch>>

\* g.cache.get(key) misses: Get goes on to g.load(key)
GetMiss(t, k, max) ==
    /\ Begin(t, k, max)
    /\ CacheFree
    /\ ~Get(c, k).ok
    /\ pc' = [pc EXCEPT ![t] = "Fly"]
    /\ ret' = [ret EXCEPT ![t] = NoRes]
    /\ role' = [role EXCEPT ![t] = "none"]
    /\ inBatch' = [inBatch EXCEPT ![t] = k \in batch]
    /\ UNCHANGED <<otherVars, fmu, lruVars, cmu, server, svr, reg, flight, packets, batch>>

\* a leader that keeps f.mu while its fn runs
FlyLeadKeepsLock(t) == t

\* the leader's f.mu.Unlock() before it calls fn: the lock has no holder
FlyLeadUnlock(t) == NoThread

\* Fly under f.mu, from f.mu.Lock() to f.mu.Unlock(): join the pending packet of
\* the key, or insert a new one
FlyJoin(t) ==
    /\ pc[t] = "Fly"
    /\ fmu = NoThread
    /\ HasPending(flight, key[t])
    /\ p' = [p EXCEPT ![t] = flight[key[t]]]
    /\ role' = [role EXCEPT ![t] = "joiner"]
    /\ pc' = [pc EXCEPT ![t] = "Wait"]
    /\ UNCHANGED <<otherVars, fmu, lruVars, cmu, server, svr, reg, flight, packets, key, res, ret, fetched, ncalls,
                   batch, inBatch, avoid>>

FlyLead(t) ==
    /\ pc[t] = "Fly"
    /\ fmu = NoThread
    /\ fmu' = FlyLeadUnlock(t)
    /\ ~HasPending(flight, key[t])
    /\ packets' = Append(packets, NewPacket(key[t], inBatch[t]))
    /\ flight' = InsertRecord(flight, key[t], Len(packets) + 1)
    /\ p' = [p EXCEPT ![t] = Len(packets) + 1]
    /\ role' = [role EXCEPT ![t] = "leader"]
    /\ pc' = [pc EXCEPT ![t] = "fn"]
    /\ UNCHANGED <<otherVars, lruVars, cmu, server, svr, reg, key, res, ret, fetched, ncalls, batch, inBatch,
                   avoid>>

\* p.wg.Wait() returns; the joiner returns p.val, p.err through load and Get
WaitReturn(t) ==
    /\ pc[t] = "Wait"
    /\ WgDone(packets[p[t]])
    /\ ret' = [ret EXCEPT ![t] = LoadResult(packets[p[t]].val, packets[p[t]].err)]
    /\ pc' = [pc EXCEPT ![t] = "idle"]
    /\ batch' = IF inBatch[t] THEN batch \ {key[t]} ELSE batch
    /\ packets' = MarkStale(packets, key[t], c)
    /\ UNCHANGED <<otherVars, fmu, lruVars, cmu, server, svr, reg, flight, key, p, res, fetched, role, ncalls,
                   inBatch, avoid>>

\* fn: no Picker is attached; getLocally calls g.retriever.retrieve(key)
FnNoServer(t) ==
    /\ pc[t] = "fn" /\ server = "nil"
    /\ packets' = [packets EXCEPT ![p[t]].nload = @ + 1]
    /\ pc' = [pc EXCEPT ![t] = "retrieve"]
    /\ UNCHANGED <<otherVars, fmu, lruVars, cmu, server, svr, reg, flight, key, p, res, ret, fetched, role,
                   ncalls, batch, inBatch, avoid>>

\* fn: g.server.Pick(key) returns ok = false; getLocally calls the loader
FnPickNone(t) ==
    /\ pc[t] = "fn" /\ server # "nil"
    /\ ~svr.consNil /\ ~Pick(svr, key[t]).ok
    /\ fetched' = [fetched EXCEPT ![t] = Peer("self", <<>>)]
    /\ packets' = [packets EXCEPT ![p[t]].nload = @ + 1]
    /\ pc' = [pc EXCEPT ![t] = "retrieve"]
    /\ UNCHANGED <<otherVars, fmu, lruVars, cmu, server, svr, reg, flight, key, p, res, ret, role,
                   ncalls, batch, inBatch, avoid>>

\* an fn that returns the error of the failed Fetch
FnFetchFailSurfaced(t) ==
    /\ pc[t] = "fn" /\ server # "nil"
    /\ ~svr.consNil /\ Pick(svr, key[t]).ok
    /\ fetched' = [fetched EXCEPT ![t] = Peer("fail", <<>>)]
    /\ res' = [res EXCEPT ![t] = R(<<>>, FetchErr)]
    /\ pc' = [pc EXCEPT ![t] = "Done"]
    /\ UNCHANGED <<otherVars, fmu, lruVars, cmu, server, svr, reg, flight, packets, key, p, ret, role,
                   ncalls, batch, inBatch, avoid>>

\* fn: Pick returns a fetcher whose Fetch fails; getLocally calls the loader
FnFetchFail(t) ==
    /\ pc[t] = "fn" /\ server # "nil"
    /\ ~svr.consNil /\ Pick(svr, key[t]).ok
    /\ fetched' = [fetched EXCEPT ![t] = Peer("fail", <<>>)]
    /\ packets' = [packets EXCEPT ![p[t]].nload = @ + 1]
    /\ pc' = [pc EXCEPT ![t] = "retrieve"]
    /\ UNCHANGED <<otherVars, fmu, lruVars, cmu, server, svr, reg, flight, key, p, res, ret, role,
                   ncalls, batch, inBatch, avoid>>

\* an fn that also stores the fetched bytes in the local cache
PeerResultCached(cache, k, bytes) ==
    [cache |-> AddStore(cache, k, bytes), res |-> R(bytes, NoErr)]

\* what fn does with the bytes of a successful Fetch
PeerResult(cache, k, bytes) == [cache |-> cache, res |-> R(bytes, NoErr)]

\* fn: Pick returns a fetcher whose Fetch succeeds with bytes
FnFetchOk(t, bytes) ==
    /\ pc[t] = "fn" /\ server # "nil"
    /\ ~svr.consNil /\ Pick(svr, key[t]).ok
    /\ fetched' = [fetched EXCEPT ![t] = Peer("ok", bytes)]
    /\ c' = PeerResult(c, key[t], bytes).cache
    /\ res' = [res EXCEPT ![t] = PeerResult(c, key[t], bytes).res]
    /\ pc' = [pc EXCEPT ![t] = "Done"]
    /\ UNCHANGED <<otherVars, fmu, called, lruPc, lruArg, lruRet, nops, uses, cmu, server, svr, reg, flight, packets,
                   key, p, ret, role, ncalls, batch, inBatch, avoid>>

\* a getLocally that caches an empty value when the loader fails
RetrieveFailCached(t) ==
    /\ pc[t] = "retrieve"
    /\ res' = [res EXCEPT ![t] = R(<<>>, LoadErr)]
    /\ pc' = [pc EXCEPT ![t] = "populate"]
    /\ UNCHANGED <<otherVars, fmu, lruVars, cmu, server, svr, reg, flight, packets, key, p, ret, fetched, role,
                   ncalls, batch, inBatch, avoid>>

\* the loader fails: getLocally returns the error
RetrieveFail(t) ==
    /\ pc[t] = "retrieve"
    /\ res' = [res EXCEPT ![t] = R(<<>>, LoadErr)]
    /\ pc' = [pc EXCEPT ![t] = "Done"]
    /\ UNCHANGED <<otherVars, fmu, lruVars, cmu, server, svr, reg, flight, packets, key, p, ret, fetched, role,
                   ncalls, batch, inBatch, avoid>>

\* the loader returns bytes: getLocally copies them into a ByteView
RetrieveOk(t, bytes) ==
    /\ pc[t] = "retrieve"
    /\ res' = [res EXCEPT ![t] = R(bytes, NoErr)]
    /\ pc' = [pc EXCEPT ![t] = "populate"]
    /\ UNCHANGED <<otherVars, fmu, lruVars, cmu, server, svr, reg, flight, packets, key, p, ret, fetched, role,
                   ncalls, batch, inBatch, avoid>>

\* g.populateCache(key, value): cache.add takes the cache's lock and calls lru Add
Populate(t) ==
    /\ pc[t] = "populate"
    /\ CacheFree
    /\ lruPc' = "AddLoop"
    /\ lruArg' = [key |-> key[t], value |-> res[t].val]
    /\ called' = <<>>
    /\ cmu' = t
    /\ pc' = [pc EXCEPT ![t] = "add"]
    /\ UNCHANGED <<otherVars, fmu, c, lruRet, nops, uses, server, svr, reg, flight, packets, key, p, res, ret,
                   fetched, role, ncalls, batch, inBatch, avoid>>

\* fn has returned: the leader stores the result and releases the waiters
FlyDone(t) ==
    /\ pc[t] = "Done"
    /\ packets' = [packets EXCEPT ![p[t]] = [StoreResult(@, res[t]) EXCEPT !.out = res[t]]]
    /\ pc' = [pc EXCEPT ![t] = "delete"]
    /\ UNCHANGED <<otherVars, fmu, lruVars, cmu, server, svr, reg, flight, key, p, res, ret, fetched, role, ncalls,
                   batch, inBatch, avoid>>

\* the leader removes the key's packet from the table and returns p.val, p.err
\* through load and Get
FlyDelete(t) ==
    /\ pc[t] = "delete"
    /\ fmu = NoThread
    /\ flight' = DeleteRecord(flight, key[t])
    /\ ret' = [ret EXCEPT ![t] = LoadResult(packets[p[t]].val, packets[p[t]].err)]
    /\ pc' = [pc EXCEPT ![t] = "idle"]
    /\ batch' = IF inBatch[t] THEN batch \ {key[t]} ELSE batch
    /\ packets' = MarkStale(packets, key[t], c)
    /\ UNCHANGED <<otherVars, fmu, lruVars, cmu, server, svr, reg, key, p, res, fetched, role, ncalls, inBatch,
                   avoid>>

\* fn: g.server.Pick(key) on a server whose peers were never set dereferences the
\* nil consHash: the goroutine panics
FnPickPanic(t) ==
    /\ pc[t] = "fn" /\ server # "nil"
    /\ svr.consNil
    /\ pc' = [pc EXCEPT ![t] = "panic"]
    /\ UNCHANGED <<otherVars, fmu, lruVars, cmu, server, svr, reg, flight, packets, key, p, res, ret,
                   fetched, role, ncalls, batch, inBatch, avoid>>

\* a RegisterSvr that replaces the Picker already attached
RegisterSvrReplace(s) ==
    /\ reg.n < MaxRegSvr
    /\ server' = "svr" /\ svr' = s
    /\ reg' = [n |-> reg.n + 1, arg |-> s, ret |-> "ok"]
    /\ UNCHANGED <<otherVars, fmu, lruVars, cmu, flight, packets, pc, key, p, res, ret, fetched,
                   role, ncalls, batch, inBatch, avoid>>

\* g.RegisterSvr(s): panics when a Picker is attached already, attaches s otherwise
RegisterSvr(s) ==
    /\ reg.n < MaxRegSvr
    /\ IF server # "nil"
       THEN /\ reg' = [n |-> reg.n + 1, arg |-> s, ret |-> Panicked]
            /\ UNCHANGED <<server, svr>>
       ELSE /\ server' = "svr" /\ svr' = s
            /\ reg' = [n |-> reg.n + 1, arg |-> s, ret |-> "ok"]
    /\ UNCHANGED <<otherVars, fmu, lruVars, cmu, flight, packets, pc, key, p, res, ret, fetched,
                   role, ncalls, batch, inBatch, avoid>>

\* ------------------------------------------------- the directory of groups
DirNameSeq == <<"a", "b">>
DirNames == {DirNameSeq[i] : i \in 1..Len(DirNameSeq)}
\* GetGroup's result when the name is not registered (a nil *Group)
NoGroup == 0
NoArg == [op |-> "none", name |-> "", g |-> NoGroup]
MuFree == [w |-> NoThread, r |-> {}]
\* what a directory operation returned: a Group (or nil), or it panicked
DirRet(g, panicked) == [g |-> g, panic |-> panicked]

\* a call of a directory operation by goroutine t
DirCall(t, op, name, g) ==
    /\ dpc[t] = "idle" /\ ndir < MaxDirOps
    /\ ndir' = ndir + 1
    /\ darg' = [darg EXCEPT ![t] = [op |-> op, name |-> name, g |-> g]]

\* NewGroup with a nil retriever panics
NewGroupNil(t, name) ==
    /\ DirCall(t, "NewGroup", name, NoGroup)
    /\ dret' = [dret EXCEPT ![t] = DirRet(NoGroup, TRUE)]
    /\ UNCHANGED <<lruVars, groupVars, ringVars, groups, objs, mu, dpc>>

\* NewGroup with a retriever constructs the Group (no Picker attached yet)
NewGroupMake(t, name) ==
    /\ DirCall(t, "NewGroup", name, Len(objs) + 1)
    /\ objs' = Append(objs, [name |-> name, server |-> "nil"])
    /\ dpc' = [dpc EXCEPT ![t] = "Lock"]
    /\ UNCHANGED <<lruVars, groupVars, ringVars, groups, mu, dret>>

\* mu.Lock()
NewGroupLock(t) ==
    /\ dpc[t] = "Lock"
    /\ mu = MuFree
    /\ mu' = [mu EXCEPT !.w = t]
    /\ dpc' = [dpc EXCEPT ![t] = "store"]
    /\ UNCHANGED <<lruVars, groupVars, ringVars, groups, objs, darg, dret, ndir>>

\* a NewGroup that keeps the entry a name already has
StoreGroupKeepFirst(m, name, g) == IF InMap(m, name) THEN m ELSE MapPut(m, name, g)

\* groups[name] = g
StoreGroup(m, name, g) == MapPut(m, name, g)

NewGroupStore(t) ==
    /\ dpc[t] = "store"
    /\ groups' = StoreGroup(groups, darg[t].name, darg[t].g)
    /\ dpc' = [dpc EXCEPT ![t] = "Unlock"]
    /\ UNCHANGED <<lruVars, groupVars, ringVars, objs, mu, darg, dret, ndir>>

\* mu.Unlock(); return g
NewGroupUnlock(t) ==
    /\ dpc[t] = "Unlock"
    /\ mu' = [mu EXCEPT !.w = NoThread]
    /\ dret' = [dret EXCEPT ![t] = DirRet(darg[t].g, FALSE)]
    /\ dpc' = [dpc EXCEPT ![t] = "idle"]
    /\ UNCHANGED <<lruVars, groupVars, ringVars, groups, objs, darg, ndir>>

\* GetGroup(name), called directly or by DestoryGroup
GetGroupCall(t, op, name) ==
    /\ DirCall(t, op, name, NoGroup)
    /\ dpc' = [dpc EXCEPT ![t] = "RLock"]
    /\ UNCHANGED <<lruVars, groupVars, ringVars, groups, objs, mu, dret>>

\* mu.RLock()
GetGroupRLock(t) ==
    /\ dpc[t] = "RLock"
    /\ mu.w = NoThread
    /\ mu' = [mu EXCEPT !.r = @ \cup {t}]
    /\ dpc' = [dpc EXCEPT ![t] = "read"]
    /\ UNCHANGED <<lruVars, groupVars, ringVars, groups, objs, darg, dret, ndir>>

\* groups[name]: the registered Group, nil when there is none
LookupGroup(m, name) == IF InMap(m, name) THEN m[name] ELSE NoGroup

\* g := groups[name]
GetGroupRead(t) ==
    /\ dpc[t] = "read"
    /\ darg' = [darg EXCEPT ![t].g = LookupGroup(groups, darg[t].name)]
    /\ dpc' = [dpc EXCEPT ![t] = "RUnlock"]
    /\ UNCHANGED <<lruVars, groupVars, ringVars, groups, objs, mu, dret, ndir>>

\* mu.RUnlock(); return g (to the caller, or to DestoryGroup, which returns when g is nil)
GetGroupRUnlock(t) ==
    /\ dpc[t] = "RUnlock"
    /\ mu' = [mu EXCEPT !.r = @ \ {t}]
    /\ IF darg[t].op = "DestoryGroup" /\ darg[t].g # NoGroup
       THEN dpc' = [dpc EXCEPT ![t] = "assert"] /\ dret' = dret
       ELSE /\ dpc' = [dpc EXCEPT ![t] = "idle"]
            /\ dret' = [dret EXCEPT ![t] = DirRet(darg[t].g, FALSE)]
    /\ UNCHANGED <<lruVars, groupVars, ringVars, groups, objs, darg, ndir>>

\* DestoryGroup: server := g.server.(*server) panics when g.server is nil
DestoryPanic(t) ==
    /\ dpc[t] = "assert"
    /\ objs[darg[t].g].server = "nil"
    /\ dret' = [dret EXCEPT ![t] = DirRet(NoGroup, TRUE)]
    /\ dpc' = [dpc EXCEPT ![t] = "idle"]
    /\ UNCHANGED <<lruVars, groupVars, ringVars, groups, objs, mu, darg, ndir>>

\* DestoryGroup: the assertion holds and server.Stop() returns
DestoryStop(t) ==
    /\ dpc[t] = "assert"
    /\ objs[darg[t].g].server # "nil"
    /\ dpc' = [dpc EXCEPT ![t] = "delete"]
    /\ UNCHANGED <<lruVars, groupVars, ringVars, groups, objs, mu, darg, dret, ndir>>

\* delete(groups, name)
DeleteGroup(m, name) == MapDelete(m, name)

\* DestoryGroup: delete(groups, name), made without taking mu, and return
DestoryDelete(t) ==
    /\ dpc[t] = "delete"
    /\ groups' = DeleteGroup(groups, darg[t].name)
    /\ dret' = [dret EXCEPT ![t] = DirRet(NoGroup, FALSE)]
    /\ dpc' = [dpc EXCEPT ![t] = "idle"]
    /\ UNCHANGED <<lruVars, groupVars, ringVars, objs, mu, darg, ndir>>

\* DestoryGroup's delete while another goroutine is at its own access to groups:
\* the accesses are not ordered by mu, and the runtime may detect the concurrent
\* map access and end the process with a fatal error
DestoryDeleteFatal(t) ==
    /\ dpc[t] = "delete"
    /\ \E u \in Threads \ {t} : dpc[u] \in {"store", "read", "delete"}
    /\ dpc' = [u \in Threads |-> "fatal"]
    /\ UNCHANGED <<lruVars, groupVars, ringVars, groups, objs, mu, darg, dret, ndir>>

\* ------------------------------------ direct calls on a Consistentency
\* no Get has been made since the last Register
NoOwner == [key |-> <<>>, peer |-> <<>>, got |-> FALSE]

\* the peers Register is called with, and the keys Get is called with
RingPeerLists == PeerLists \cup {<<RemoteAddr, SelfAddr>>}
RingKeys == GroupKeys

\* the hash functions New is given: crc32.ChecksumIEEE, and functions of the bytes
\* of the string under which virtual nodes of different peers collide
RECURSIVE SumBytes(_)
SumBytes(str) == IF str = <<>> THEN 0 ELSE Front(str) + SumBytes(Tail(str))
HashFuncs ==
    {Crc32} \cup {[str \in DOMAIN Crc32 |-> (a * SumBytes(str) + b) % (MaxHash + 1)] :
                    a \in 1..2, b \in 0..2}

\* the virtual nodes the loops of Register go through, in order: the hash and the peer
RECURSIVE PeerVNodes(_, _, _, _)
PeerVNodes(replicas, h, peerName, i) ==
    IF i >= replicas THEN <<>>
    ELSE <<[hash |-> h[VNode(i, peerName)], peer |-> peerName]>>
         \o PeerVNodes(replicas, h, peerName, i + 1)
RECURSIVE AllVNodes(_, _, _)
AllVNodes(replicas, h, peersName) ==
    IF peersName = <<>> THEN <<>>
    ELSE PeerVNodes(replicas, h, Front(peersName), 0)
         \o AllVNodes(replicas, h, Tail(peersName))

\* c.Register(peersName...)
RingRegister(peersName) ==
    /\ nregs < MaxRegs
    /\ cons' = Register(cons, hash, peersName)
    /\ nregs' = nregs + 1
    /\ vnodes' = vnodes \o AllVNodes(cons.replicas, hash, peersName)
    /\ owner' = NoOwner
    /\ prior' = [k \in RingKeys |-> GetPeer(cons, hash, k)]
    /\ joined' = {peersName[i] : i \in 1..Len(peersName)}
    /\ UNCHANGED <<lruVars, groupVars, dirVars, hash>>

\* c.Get(key)
RingGet(k) ==
    /\ owner' = [key |-> k, peer |-> GetPeer(cons, hash, k), got |-> TRUE]
    /\ UNCHANGED <<lruVars, groupVars, dirVars, cons, hash, nregs, vnodes, prior, joined>>

\* ---------------------------------------------------------- specifications
\* a Consistentency with the hash function fn, before any Register
InitRing(replicas, fn) ==
    /\ cons = NewConsistentency(replicas)
    /\ hash = fn
    /\ owner = NoOwner
    /\ nregs = 0
    /\ vnodes = <<>>
    /\ prior = [k \in RingKeys |-> <<>>]
    /\ joined = {}

\* the directories the program can have built by NewGroup and RegisterSvr calls:
\* a set of registered names, each Group with or without a Picker
RegisteredDirs ==
    {d \in [names : SUBSET DirNames, svr : SUBSET DirNames] : d.svr \subseteq d.names}

\* the Groups of such a directory, in the order they were constructed
DirObjs(d) ==
    LET regs == SelectSeq(DirNameSeq, LAMBDA n : n \in d.names)
    IN [i \in 1..Len(regs) |->
            [name |-> regs[i], server |-> IF regs[i] \in d.svr THEN "svr" ELSE "nil"]]

InitDir(dirs) ==
    /\ \E d \in dirs :
          /\ objs = DirObjs(d)
          /\ groups = [n \in d.names |-> CHOOSE i \in 1..Len(objs) : objs[i].name = n]
    /\ mu = MuFree
    /\ dpc = [t \in Threads |-> "idle"]
    /\ darg = [t \in Threads |-> NoArg]
    /\ dret = [t \in Threads |-> DirRet(NoGroup, FALSE)]
    /\ ndir = 0

\* no directory operation and no direct ring call has been made
InitOther == InitRing(MaxReplicas, Crc32) /\ InitDir({[names |-> {}, svr |-> {}]})

InitGroup ==
    /\ cmu = NoThread
    /\ fmu = NoThread
    /\ server = "nil"
    /\ svr = NewServer(SelfAddr)
    /\ reg = [n |-> 0, arg |-> NewServer(SelfAddr), ret |-> "none"]
    /\ flight = EmptyMap
    /\ packets = <<>>
    /\ pc = [t \in Threads |-> "idle"]
    /\ key = [t \in Threads |-> EmptyKey]
    /\ p = [t \in Threads |-> NoPacket]
    /\ res = [t \in Threads |-> NoRes]
    /\ ret = [t \in Threads |-> NoRes]
    /\ fetched = [t \in Threads |-> Peer("none", <<>>)]
    /\ role = [t \in Threads |-> "none"]
    /\ ncalls = [t \in Threads |-> 0]
    /\ batch = GroupKeys
    /\ inBatch = [t \in Threads |-> FALSE]
    /\ avoid = [t \in Threads |-> {}]

InitCache(caps, callbacks) ==
    /\ \E cap \in caps, cb \in callbacks : c = New(cap, cb)
    /\ called = <<>>
    /\ lruPc = "idle"
    /\ lruArg = [key |-> <<>>, value |-> <<>>]
    /\ lruRet = <<<<>>, FALSE>>
    /\ nops = 0
    /\ uses = <<>>

\* an lru.Cache under direct calls
InitLRU == InitCache(Caps, BOOLEAN) /\ InitGroup /\ InitOther

NextLRU ==
    \/ \E k \in LruKeys : CacheGet(k)
    \/ \E k \in LruKeys, v \in Vals : CacheAdd(k, v)
    \/ AddEvict
    \/ AddFinish
    \/ CacheRemove

SpecLRU == InitLRU /\ [][NextLRU]_vars

\* the steps of a Get after its cache lookup missed
Load(t) ==
    \/ FlyJoin(t)
    \/ FlyLead(t)
    \/ WaitReturn(t)
    \/ FnNoServer(t)
    \/ RetrieveFail(t)
    \/ \E b \in GroupVals : RetrieveOk(t, b)
    \/ Populate(t)
    \/ FlyDone(t)
    \/ FlyDelete(t)

\* ------------------------------------------------------ claims: lru.Cache
\* C4: with capacity > 0, whenever Add has returned (no Add is in progress) the
\* tracked size length is at most capacity. The update path of Add breaks it.
C4_LengthWithinCapacity ==
    (lruPc = "idle" /\ c.capacity > 0) => c.length <= c.capacity

\* C7: the list is in least-recently-used order: its keys, front to back, are the
\* stored keys ordered by their last Get hit or Add, latest first, and every
\* eviction has removed the key whose last use was the oldest.
C7_RecencyOrder == ListKeys(c.doublyLinkedList) = uses

\* Add(A), Add(B), Get(A), Add(C) with room for two entries has evicted B and kept A
C7_Witness ==
    /\ c.capacity = 2 /\ c.callback /\ lruPc = "idle" /\ nops = 4
    /\ lruRet = <<<<>>, TRUE>>
    /\ ListKeys(c.doublyLinkedList) = <<<<3>>, <<1>>>>
    /\ called = <<<<<<2>>, <<>>>>>>

\* the entries of the list l whose key the list m no longer holds, front to back
Dropped(l, m) ==
    LET keep == {m[i].key : i \in 1..Len(m)}
        lost == SelectSeq(l, LAMBDA e : e.key \notin keep)
    IN [i \in 1..Len(lost) |-> <<lost[i].key, lost[i].value>>]

\* C8: in every step the callback is invoked exactly once for each entry that
\* leaves the cache, with the key and the value the entry held, and not otherwise
\* (called restarts empty with each call of Get, Add or Remove); without a
\* callback nothing is invoked.
C8_CallbackPerRemoval ==
    [][LET before == IF lruPc = "idle" THEN <<>> ELSE called
           dropped == Dropped(c.doublyLinkedList, c'.doublyLinkedList)
       IN /\ Len(dropped) <= 1
          /\ called' = IF c.callback THEN before \o dropped ELSE <<>>]_vars

\* one Add has evicted two entries and the callback was invoked for both
C8_Witness == c.callback /\ Len(called) = 2 /\ lruPc = "idle"

\* C19: Add always returns: every pass of its eviction loop that finds the loop
\* condition true removes an entry, so the loop ends once every stored entry is
\* evicted. With an entry larger than the capacity the condition stays true on an
\* empty list, where Remove changes nothing.
C19_AddLoopProgress ==
    (lruPc = "AddLoop" /\ AddLoopCond(c, lruArg.key, lruArg.value)) => Remove(c) # c

\* the sum over the entries of a list of key length + value length
RECURSIVE EntriesSize(_)
EntriesSize(l) ==
    IF l = <<>> THEN 0 ELSE KvSize(Front(l).key, Front(l).value) + EntriesSize(Tail(l))

\* C20: whenever no Add is in progress, the tracked size length is the sum over the
\* stored entries of key length + value length. The update path of Add breaks it.
C20_LengthIsSum ==
    lruPc = "idle" => c.length = EntriesSize(c.doublyLinkedList)

\* the total size the cache would have with key k holding value: the tracked size
\* plus the new entry, less the entry k holds now
ResultingTotal(cache, k, value) ==
    cache.length + KvSize(k, value)
    - (IF InMap(cache.hashmap, k)
       THEN KvSize(k, ElemOf(cache.doublyLinkedList, cache.hashmap[k]).value)
       ELSE 0)

\* C21: a step of Add evicts an entry only if the capacity is not 0 and the total
\* size that would result from the insert or update exceeds it. The loop condition
\* counts the whole new entry on top of the entry the key already holds.
C21_EvictOnlyIfNeeded ==
    [][(lruPc = "AddLoop" /\ Len(c'.doublyLinkedList) < Len(c.doublyLinkedList)) =>
          /\ c.capacity # 0
          /\ ResultingTotal(c, lruArg.key, lruArg.value) > c.capacity]_vars

\* C26: the index and the list hold the same keys, each key in one list element
\* and each element under its own identity, and every index entry points to the
\* element that carries its key.
C26_IndexMatchesList ==
    LET l == c.doublyLinkedList
    IN /\ DOMAIN c.hashmap = {l[i].key : i \in 1..Len(l)}
       /\ \A i, j \in 1..Len(l) : (l[i].key = l[j].key \/ l[i].id = l[j].id) => i = j
       /\ \A k \in DOMAIN c.hashmap :
             \E i \in 1..Len(l) : l[i].id = c.hashmap[k] /\ l[i].key = k

\* after four calls the cache holds two entries, the older element at the front
C26_Witness ==
    /\ lruPc = "idle" /\ nops = MaxOps /\ Len(c.doublyLinkedList) = 2
    /\ Front(c.doublyLinkedList).id < Back(c.doublyLinkedList).id
    /\ c.hashmap[Front(c.doublyLinkedList).key] = Front(c.doublyLinkedList).id

\* --------------------------------------------- claims: Flight and Group
\* the goroutines whose Get has returned
Returned == {t \in Threads : pc[t] = "idle" /\ role[t] # "none"}
\* the goroutines whose Get was served by a packet of Fly
Served == {t \in Returned : role[t] \in {"leader", "joiner"}}
\* where a goroutine is while its fn executes
FnPcs == {"fn", "retrieve", "populate", "add"}

\* C1: of the concurrent Gets of a key that all missed the cache (each
\* missed before any of them returned), the loader is invoked once in all, and
\* those that have returned returned the same value and error.
C1_OneLoadPerBatch ==
    \A k \in GroupKeys :
        /\ Cardinality({i \in DOMAIN packets :
                            packets[i].key = k /\ packets[i].batch /\ packets[i].nload > 0}) <= 1
        /\ \A t1, t2 \in {t \in Served : inBatch[t] /\ key[t] = k} : ret[t1] = ret[t2]

\* C2: at most one goroutine per key is executing fn, and a goroutine that found
\* a pending packet (a joiner) only waits and returns: it never executes fn.
C2_OneFnPerKey ==
    /\ \A k \in GroupKeys : Cardinality({t \in Threads : pc[t] \in FnPcs /\ key[t] = k}) <= 1
    /\ \A t \in Threads : role[t] = "joiner" => pc[t] \in {"Wait", "idle"} /\ res[t] = NoRes

\* a joiner waits while the leader's loader runs
C2_Witness ==
    \E t1, t2 \in Threads :
        pc[t1] = "Wait" /\ pc[t2] = "retrieve" /\ p[t1] = p[t2] /\ role[t1] = "joiner"

\* C3: a joiner that has returned returned the pair its packet's fn returned, after
\* fn completed, and the loader was invoked once for the packet (no retry).
C3_JoinerGetsFnResult ==
    \A t \in Returned :
        role[t] = "joiner" =>
            /\ WgDone(packets[p[t]])
            /\ packets[p[t]].out # NoRes
            /\ ret[t] = packets[p[t]].out
            /\ packets[p[t]].nload = 1

\* a joiner has returned the loader's error
C3_Witness ==
    \E t \in Returned :
        role[t] = "joiner" /\ ret[t] = R(<<>>, LoadErr) /\ packets[p[t]].out = ret[t]

\* C5: a Fly that takes the lock after fn has completed for the key's
\* packet does not attach to that packet.
C5_NoJoinAfterFn ==
    [][\A t \in Threads :
          (pc[t] = "Fly" /\ pc'[t] = "Wait") => ~WgDone(packets[p'[t]])]_vars

\* C6: once a Get of a key has returned with the key not cached, a Get
\* of the key that starts afterwards and misses is not served by a packet whose
\* loader invocation had started before that return.
C6_NoReplayAfterReturn ==
    \A t \in Threads : p[t] # NoPacket => p[t] \notin avoid[t]

\* C9: a Get whose peer Fetch failed invokes the loader; when the loader returns
\* bytes, the Add it makes leaves the key in the cache with those bytes, and the
\* Get returns them with no error; the Fetch error is never returned.
C9_FallbackToLoader ==
    [][\A t \in Threads :
          fetched[t].st = "fail" =>
              /\ packets[p[t]].nload = 1
              /\ (pc[t] = "add" /\ pc'[t] = "Done") =>
                    /\ InMap(c'.hashmap, key[t])
                    /\ ElemOf(c'.doublyLinkedList, c'.hashmap[key[t]]).value = res[t].val
                    /\ Front(c'.doublyLinkedList).key = key[t]
              /\ (pc[t] = "delete" /\ pc'[t] = "idle") =>
                    /\ ret'[t] = res[t]
                    /\ ret'[t].err \in {NoErr, LoadErr}
                    /\ ret'[t].err = NoErr => packets[p[t]].out = ret'[t]]_vars

\* a Get whose Fetch failed has returned the loader's bytes, which are cached
C9_Witness ==
    \E t \in Returned :
        /\ fetched[t].st = "fail" /\ ret[t].err = NoErr
        /\ InMap(c.hashmap, key[t])
        /\ ElemOf(c.doublyLinkedList, c.hashmap[key[t]]).value = ret[t].val

\* C10: the step in which a Get's peer Fetch succeeds leaves the cache as it is
\* and invokes no loader; that Get never calls the loader or cache.add and returns
\* the fetched bytes with no error.
C10_RemoteNotCached ==
    [][\A t \in Threads :
          /\ (pc[t] = "fn" /\ fetched'[t].st = "ok") =>
                /\ c' = c
                /\ pc'[t] = "Done"
          /\ fetched'[t].st = "ok" =>
                /\ packets'[p'[t]].nload = 0
                /\ pc'[t] \in {"Done", "delete", "idle"}
                /\ (pc[t] = "delete" /\ pc'[t] = "idle") =>
                      ret'[t] = R(fetched[t].bytes, NoErr)]_vars

\* a Get has returned fetched bytes and its key is not in the cache
C10_Witness ==
    \E t \in Returned :
        /\ fetched[t].st = "ok" /\ ret[t] = R(fetched[t].bytes, NoErr)
        /\ ~InMap(c.hashmap, key[t])

\* C11: when the loader fails, getLocally returns at once without touching the
\* cache, no step of the failed call changes the cache, the loader is invoked once
\* for the packet, and the leader and every joiner of the packet return the
\* loader's error.
C11_LoadErrorSurfaced ==
    [][\A t \in Threads :
          /\ (pc[t] = "retrieve" /\ res'[t].err = LoadErr) =>
                pc'[t] = "Done" /\ c' = c /\ lruPc' = lruPc
          /\ (pc[t] \in {"Done", "delete"} /\ res[t].err = LoadErr /\ pc'[t] # pc[t]) =>
                /\ c' = c
                /\ packets'[p[t]].nload = 1
                /\ pc'[t] = "idle" => ret'[t] = R(<<>>, LoadErr)
          /\ (pc[t] = "Wait" /\ pc'[t] = "idle" /\ packets[p[t]].out.err = LoadErr) =>
                /\ ret'[t] = R(<<>>, LoadErr)
                /\ packets[p[t]].nload = 1
                /\ c' = c]_vars

\* the leader and a joiner of one packet have both returned the loader's error and
\* the key is not cached
C11_Witness ==
    \E t1, t2 \in Returned :
        /\ role[t1] = "leader" /\ role[t2] = "joiner" /\ p[t1] = p[t2]
        /\ ret[t1] = R(<<>>, LoadErr) /\ ret[t2] = R(<<>>, LoadErr)
        /\ ~InMap(c.hashmap, key[t1])

\* C12: the step in which a goroutine calls Get sends it on to load only when the
\* key is not cached; when the key is cached the call returns in that step with the
\* cached value and no error, and the coalescing table, the packets with their
\* loader counts and the peer outcomes are as before: the call holds no packet and
\* made no peer step.
C12_HitSkipsLoad ==
    [][\A t \in Threads :
          ncalls'[t] # ncalls[t] =>
              /\ pc'[t] # pc[t] => pc'[t] = "Fly" /\ ~InMap(c.hashmap, key'[t])
              /\ InMap(c.hashmap, key'[t]) =>
                    /\ pc' = pc /\ role'[t] = "hit"
                    /\ ret'[t] = R(ElemOf(c.doublyLinkedList, c.hashmap[key'[t]]).value, NoErr)
                    /\ packets' = packets /\ flight' = flight
                    /\ p'[t] = NoPacket /\ fetched'[t].st = "none"]_vars

\* after one successful local load of a key, a later Get of the key has hit the
\* cache and the loader has been invoked once for the key
C12_Witness ==
    \E t \in Returned :
        /\ role[t] = "hit" /\ InMap(c.hashmap, key[t])
        /\ ret[t] = R(ElemOf(c.doublyLinkedList, c.hashmap[key[t]]).value, NoErr)
        /\ Cardinality({i \in DOMAIN packets :
                            packets[i].key = key[t] /\ packets[i].nload = 1}) = 1
        /\ \A i \in DOMAIN packets : packets[i].key = key[t] => packets[i].out.err = NoErr

\* C13: on an attached server with a ring, Pick(key) reports ok = false whenever
\* the ring is empty or the key's owner is the server's own address, and a Get whose
\* key is in either case makes no Fetch. An empty ring breaks it.
C13_PickSelfOrNone ==
    (server = "svr" /\ ~svr.consNil) =>
        /\ \A k \in GroupKeys :
              (Len(svr.consHash.ring) = 0 \/ GetPeer(svr.consHash, Crc32, k) = svr.addr)
                  => ~Pick(svr, k).ok
        /\ \A t \in Threads :
              fetched[t].st \in {"ok", "fail"} =>
                  /\ Len(svr.consHash.ring) > 0
                  /\ GetPeer(svr.consHash, Crc32, key[t]) # svr.addr

\* C14: the step in which a goroutine calls Get with the empty key returns the
\* "key is required" error with no value and changes nothing else: the cache
\* (entries, recency order, size), the coalescing table, the packets with their
\* loader counts, and where every goroutine is.
C14_EmptyKeyNoEffect ==
    [][\A t \in Threads :
          (ncalls'[t] # ncalls[t] /\ key'[t] = EmptyKey) =>
              /\ ret'[t] = R(<<>>, KeyErr)
              /\ c' = c /\ uses' = uses /\ lruPc' = lruPc
              /\ flight' = flight /\ packets' = packets
              /\ pc' = pc /\ p'[t] = NoPacket /\ fetched'[t].st = "none"]_vars

\* a Get of the empty key has returned its error while a key is cached and a load
\* of another key is pending
C14_Witness ==
    \E t \in Returned :
        /\ role[t] = "invalid" /\ ret[t] = R(<<>>, KeyErr)
        /\ c.doublyLinkedList # <<>>
        /\ flight # EmptyMap

\* C16: the first RegisterSvr on the group attaches its argument; every later
\* RegisterSvr panics and leaves the attached Picker as it is.
C16_RegisterOnce ==
    [][reg'.n # reg.n =>
          IF server = "nil"
          THEN server' = "svr" /\ svr' = reg'.arg /\ reg'.ret = "ok"
          ELSE server' = server /\ svr' = svr /\ reg'.ret = Panicked]_vars

\* a second RegisterSvr, with another server, has panicked and the first is attached
C16_Witness ==
    /\ reg.n = 2 /\ reg.ret = Panicked
    /\ server = "svr" /\ svr # reg.arg

\* ------------------------------------------------------ claims: the ring
\* the smallest of a non-empty set of hash values
MinHash(hs) == CHOOSE x \in hs : \A y \in hs : x <= y

\* the owner of a hash value among the registered virtual nodes: the peer that
\* registered the smallest hash >= hv, or the smallest hash of all when there is none
\* (the peer that registered that hash last, when several did); "" with no nodes
OwnerOf(vn, hv) ==
    IF vn = <<>> THEN <<>>
    ELSE LET hs == {vn[i].hash : i \in 1..Len(vn)}
             ge == {x \in hs : x >= hv}
             target == IF ge = {} THEN MinHash(hs) ELSE MinHash(ge)
             last == CHOOSE i \in 1..Len(vn) :
                        /\ vn[i].hash = target
                        /\ \A j \in (i + 1)..Len(vn) : vn[j].hash # target
         IN vn[last].peer

\* C18: on every ring built by Register calls, a Get returns the owner of the
\* smallest ring entry whose hash is >= the hash of the key, the owner of the
\* smallest entry of all when the key's hash is above every entry, and the empty
\* string when the ring has no entries.
C18_RingLookup ==
    owner.got => owner.peer = OwnerOf(vnodes, hash[owner.key])

\* a Get of a key whose hash is above every entry of a ring of two peers
C18_Witness ==
    /\ owner.got /\ vnodes # <<>>
    /\ \A i \in 1..Len(vnodes) : vnodes[i].hash < hash[owner.key]
    /\ \E i, j \in 1..Len(vnodes) : vnodes[i].peer # vnodes[j].peer
    /\ owner.peer = vnodes[1].peer /\ vnodes[1].hash > vnodes[Len(vnodes)].hash

C15_DestroyRemoves ==
    [][\A t \in Threads :
          (dpc[t] \in {"assert", "delete"} /\ dpc'[t] = "idle") =>
              ~InMap(groups', darg[t].name)]_vars

\* C22: every step that changes the directory is taken by the goroutine that holds
\* the write lock mu. DestoryGroup deletes without taking it.
C22_MutationsUnderLock ==
    [][groups' # groups => (mu.w # NoThread /\ dpc'[mu.w] # dpc[mu.w])]_vars

\* C17: a NewGroup call with a nil loader panics in the step that calls it and
\* leaves the directory as it is; a NewGroup with a loader stores the Group it
\* constructed under the name, replacing the entry the name had and no other, so
\* that a lookup of the name finds exactly that Group, and returns that Group.
C17_NewGroupRegisters ==
    [][/\ (ndir' # ndir /\ dpc' = dpc) =>
             /\ groups' = groups /\ objs' = objs /\ mu' = mu
             /\ \E t \in Threads : darg'[t].op = "NewGroup" /\ dret'[t].panic
       /\ \A t \in Threads :
             /\ (dpc[t] = "store" /\ dpc'[t] = "Unlock") =>
                   /\ mu.w = t
                   /\ LookupGroup(groups', darg[t].name) = darg[t].g
                   /\ objs[darg[t].g] = [name |-> darg[t].name, server |-> "nil"]
                   /\ \A n \in DirNames \ {darg[t].name} :
                         LookupGroup(groups', n) = LookupGroup(groups, n)
             /\ (dpc[t] = "Unlock" /\ dpc'[t] = "idle") =>
                   dret'[t] = DirRet(darg[t].g, FALSE)]_vars

\* a second NewGroup of a name has returned its Group, which replaced the earlier one
C17_Witness ==
    \E t \in Threads :
        /\ dpc[t] = "idle" /\ darg[t].op = "NewGroup" /\ dret[t].g # NoGroup
        /\ LookupGroup(groups, darg[t].name) = dret[t].g
        /\ \E i \in 1..(dret[t].g - 1) : objs[i].name = darg[t].name

\* C23: no goroutine holds the table lock f.mu while its fn executes, so a Fly for
\* another key can take the lock, run its own fn and return while that fn is
\* still executing.
C23_FnOutsideLock ==
    \A t \in Threads : pc[t] \in FnPcs => fmu # t

\* while the fn of one goroutine has not moved, a Fly for another key that started
\* later has inserted its packet, run its fn and returned
C23_Witness ==
    \E t, u \in Threads :
        /\ pc[t] = "fn" /\ role[t] = "leader"
        /\ pc[u] = "idle" /\ role[u] = "leader" /\ key[u] # key[t]
        /\ p[u] > p[t] /\ ret[u] = R(packets[p[u]].val, packets[p[u]].err)
        /\ packets[p[u]].wg = 0 /\ ~HasPending(flight, key[u])

\* C25: under fair scheduling, with every fn returning, every Fly call, leader or
\* joiner, eventually returns through load and Get, and every packet inserted in
\* the table is eventually deleted from it.
C25_FlyReturns ==
    /\ \A t \in Threads : (pc[t] = "Fly") ~> (pc[t] = "idle")
    /\ \A k \in GroupKeys : HasPending(flight, k) ~> ~HasPending(flight, k)

\* a joiner that waited on the leader's packet and the leader have both returned,
\* every goroutine has made its calls and the table is empty
C25_Witness ==
    /\ flight = EmptyMap /\ TotalCalls(ncalls, Threads) = MaxCalls
    /\ \A t \in Threads : pc[t] = "idle"
    /\ \E t, u \in Threads :
          role[t] = "joiner" /\ role[u] = "leader" /\ p[t] = p[u] /\ key[t] = key[u]

\* a Group without a Picker under concurrent Get calls
Init == InitCache({MaxCap}, {FALSE}) /\ InitGroup /\ InitOther

Next ==
    \/ \E t \in Threads : GetEmptyKey(t, MaxCalls)
    \/ \E t \in Threads, k \in GroupKeys : GetHit(t, k, MaxCalls)
    \/ \E t \in Threads, k \in GroupKeys : GetMiss(t, k, MaxCalls)
    \/ \E t \in Threads : Load(t)
    \/ AddEvict
    \/ AddFinish

Spec == Init /\ [][Next]_vars

\* the same Group under fair scheduling: a goroutine that can take a step of its
\* load eventually takes one (this includes the return of its loader, so every fn
\* returns), and an Add in progress goes on
Fairness ==
    /\ \A t \in Threads : WF_vars(Load(t))
    /\ WF_vars(AddEvict)
    /\ WF_vars(AddFinish)

SpecFair == Init /\ [][Next]_vars /\ Fairness

\* a Group to which a Picker is attached once, at some time, under concurrent Get calls
NextPeer ==
    \/ \E t \in Threads : GetEmptyKey(t, MaxPeerCalls)
    \/ \E t \in Threads, k \in GroupKeys : GetHit(t, k, MaxPeerCalls)
    \/ \E t \in Threads, k \in GroupKeys : GetMiss(t, k, MaxPeerCalls)
    \/ \E t \in Threads : Load(t)
    \/ \E t \in Threads : FnPickNone(t)
    \/ \E t \in Threads : FnFetchFail(t)
    \/ \E t \in Threads, b \in GroupVals : FnFetchOk(t, b)
    \/ \E t \in Threads : FnPickPanic(t)
    \/ AddEvict
    \/ AddFinish
    \/ \E s \in Servers : server = "nil" /\ RegisterSvr(s)

SpecPeer == Init /\ [][NextPeer]_vars

\* a Group under repeated RegisterSvr calls
NextSvr == \E s \in Servers : RegisterSvr(s)

SpecSvr == Init /\ [][NextSvr]_vars

\* the directory under concurrent NewGroup, GetGroup and DestoryGroup calls
InitDirectory ==
    /\ InitCache({MaxCap}, {FALSE}) /\ InitGroup
    /\ InitRing(MaxReplicas, Crc32) /\ InitDir(RegisteredDirs)

NextDir ==
    \/ \E t \in Threads, n \in DirNames : NewGroupNil(t, n)
    \/ \E t \in Threads, n \in DirNames : NewGroupMake(t, n)
    \/ \E t \in Threads : NewGroupLock(t)
    \/ \E t \in Threads : NewGroupStore(t)
    \/ \E t \in Threads : NewGroupUnlock(t)
    \/ \E t \in Threads, n \in DirNames, op \in {"GetGroup", "DestoryGroup"} :
            GetGroupCall(t, op, n)
    \/ \E t \in Threads : GetGroupRLock(t)
    \/ \E t \in Threads : GetGroupRead(t)
    \/ \E t \in Threads : GetGroupRUnlock(t)
    \/ \E t \in Threads : DestoryPanic(t)
    \/ \E t \in Threads : DestoryStop(t)
    \/ \E t \in Threads : DestoryDelete(t)
    \/ \E t \in Threads : DestoryDeleteFatal(t)

SpecDir == InitDirectory /\ [][NextDir]_vars

\* a Consistentency with some number of replicas and some hash function, under
\* Register and Get calls
InitConsistentency ==
    /\ InitCache({MaxCap}, {FALSE}) /\ InitGroup /\ InitDir({[names |-> {}, svr |-> {}]})
    /\ \E replicas \in 0..MaxReplicas, fn \in HashFuncs : InitRing(replicas, fn)

NextRing ==
    \/ \E peersName \in RingPeerLists : RingRegister(peersName)
    \/ \E k \in RingKeys : RingGet(k)

SpecRing == InitConsistentency /\ [][NextRing]_vars

====
